---- MODULE Spec2Model ----
(***************************************************************************)
(* Catmull-Clark subdivision over an index-addressed half-edge mesh       *)
(* (src/src/subdivide.rs).  The mesh arenas and the traversals live in    *)
(* mesh.rs / iterator.rs; they are modelled from their documented         *)
(* contract.  Ids are 1-based arena indices and 0 is the null id.         *)
(* Point3<f32> arithmetic is modelled exactly over the rationals.         *)
(***************************************************************************)
EXTENDS Integers, Sequences, FiniteSets, TLC

\* ------------------------------------------------------------------ bounds
\* Largest polygon used for the two-sided (dihedron) input fixtures.
MaxDegree == 4
\* How many times subdivide() may be applied in a chain.
MaxLevel == 2
\* Number of cache queries issued in the cache-only specification.
MaxQueries == 3

\* The id that addresses no entity (VertexData::new uses it as placeholder).
NullId == 0

\* ------------------------------------------------------ exact arithmetic
RECURSIVE GCD(_, _)
GCD(a, b) == IF b = 0 THEN a ELSE GCD(b, a % b)

Abs(x) == IF x < 0 THEN -x ELSE x

Rat(n, d) ==
    LET g == GCD(Abs(n), d)
    IN  [n |-> n \div g, d |-> d \div g]

RInt(k) == [n |-> k, d |-> 1]

RAdd(a, b) == Rat(a.n * b.d + b.n * a.d, a.d * b.d)

RScale(a, k) == Rat(a.n * k, a.d)

RDiv(a, k) == Rat(a.n, a.d * k)

\* Point3<f32>: three coordinates.
Pt(x, y, z) == <<RInt(x), RInt(y), RInt(z)>>

ZeroPt == Pt(0, 0, 0)

PAdd(p, q) == [i \in 1..3 |-> RAdd(p[i], q[i])]

PScale(p, k) == [i \in 1..3 |-> RScale(p[i], k)]

PDiv(p, k) == [i \in 1..3 |-> RDiv(p[i], k)]

RECURSIVE PSum(_)
PSum(ps) == IF ps = <<>> THEN ZeroPt ELSE PAdd(ps[1], PSum(Tail(ps)))

\* cgmath Point3::centroid: the sum of the points divided by their number.
centroid(ps) == PDiv(PSum(ps), Len(ps))

\* ------------------------------------------------------------- the mesh
EmptyMesh == [vertices |-> <<>>, halfedges |-> <<>>, faces |-> <<>>]

HasVertex(m, id) == id \in 1..Len(m.vertices)

HasHalfedge(m, id) == id \in 1..Len(m.halfedges)

HasFace(m, id) == id \in 1..Len(m.faces)

vertex_count(m) == Len(m.vertices)

halfedge_count(m) == Len(m.halfedges)

face_count(m) == Len(m.faces)

\* add_vertex(position) -> Id: a new vertex with an empty incidence set.
add_vertex(m, pos) ==
    [m EXCEPT !.vertices = Append(@, [position |-> pos, halfedges |-> {}])]

\* add_halfedge() -> Id: every field is filled in afterwards.
add_halfedge(m) ==
    [m EXCEPT !.halfedges = Append(@, [vertex |-> NullId, face |-> NullId,
                                       next |-> NullId, opposite |-> NullId])]

\* add_face() -> Id
add_face(m) == [m EXCEPT !.faces = Append(@, [halfedge |-> NullId])]

\* link_halfedges(first, second): first.next = second
link_halfedges(m, first, second) ==
    [m EXCEPT !.halfedges[first].next = second]

\* FaceHalfedgeIterator(start).into_vec(): follow next until back at start.
\* ok is FALSE when an id on the way addresses no halfedge, or when the walk
\* does not close (the iterator then never ends).
RECURSIVE WalkFace(_, _, _, _)
WalkFace(m, start, cur, acc) ==
    IF ~HasHalfedge(m, cur) \/ Len(acc) >= Len(m.halfedges)
    THEN [ok |-> FALSE, vec |-> acc]
    ELSE IF m.halfedges[cur].next = start
         THEN [ok |-> TRUE, vec |-> Append(acc, cur)]
         ELSE WalkFace(m, start, m.halfedges[cur].next, Append(acc, cur))

FaceHalfedges(m, start) == WalkFace(m, start, start, <<>>)

\* face_center(id): centroid of the positions on the face's boundary cycle.
face_center(m, id) ==
    IF ~HasFace(m, id) THEN [ok |-> FALSE, p |-> ZeroPt]
    ELSE LET w == FaceHalfedges(m, m.faces[id].halfedge)
         IN  IF ~w.ok \/ \E i \in 1..Len(w.vec) :
                            ~HasVertex(m, m.halfedges[w.vec[i]].vertex)
             THEN [ok |-> FALSE, p |-> ZeroPt]
             ELSE [ok |-> TRUE,
                   p |-> centroid([i \in 1..Len(w.vec) |->
                          m.vertices[m.halfedges[w.vec[i]].vertex].position])]

\* edge_center(id): midpoint of origin(id) and origin(next(id)).
edge_center(m, id) ==
    IF ~HasHalfedge(m, id) THEN [ok |-> FALSE, p |-> ZeroPt]
    ELSE LET h == m.halfedges[id]
         IN  IF ~HasHalfedge(m, h.next) \/ ~HasVertex(m, h.vertex)
                \/ ~HasVertex(m, m.halfedges[h.next].vertex)
             THEN [ok |-> FALSE, p |-> ZeroPt]
             ELSE [ok |-> TRUE,
                   p |-> centroid(<<m.vertices[h.vertex].position,
                          m.vertices[m.halfedges[h.next].vertex].position>>)]

\* peek_same_halfedge(id): the representative id an edge's two halfedges share.
peek_same_halfedge(m, id) ==
    IF ~HasHalfedge(m, id) THEN [ok |-> FALSE, id |-> NullId]
    ELSE LET o == m.halfedges[id].opposite
         IN  [ok |-> TRUE, id |-> IF o # NullId /\ o < id THEN o ELSE id]

\* --------------------------------------------- the subdivider's caches
\* The cache functions borrow the subdivider's buffers; c carries them:
\* [ok, face_data_set, edge_data_set, vertex_data_set, generated_mesh,
\*  tmp_avg_of_faces, tmp_avg_of_edge_mids].  ok = FALSE: an unwrap() panicked.
NewContext ==
    [ok |-> TRUE, face_data_set |-> <<>>, edge_data_set |-> <<>>,
     vertex_data_set |-> <<>>, generated_mesh |-> EmptyMesh,
     tmp_avg_of_faces |-> <<>>, tmp_avg_of_edge_mids |-> <<>>]

Panic(c) == [c EXCEPT !.ok = FALSE]

NoFaceData == [average_of_points |-> ZeroPt, generated_vertex_id |-> NullId]

NoEdgeData == [mid_point |-> ZeroPt, generated_vertex_id |-> NullId]

NoVertexData == [generated_vertex_id |-> NullId]

\* mutant: the closure runs on every access, cached or not
entry_vacant_always(set, id) == TRUE

\* map.entry(id).or_insert_with(..): the closure runs only for an absent key.
entry_vacant(set, id) == id \notin DOMAIN set

\* The id the next add_vertex() returns.
NextVertexId(m) == Len(m.vertices) + 1

\* The or_insert_with closure of face_data_mut; fc is input.face_center(id).
face_insert(c, id, fc) ==
    IF ~fc.ok THEN [c |-> Panic(c), data |-> NoFaceData]
    ELSE [c |-> [c EXCEPT
                   !.generated_mesh = add_vertex(@, fc.p),
                   !.face_data_set =
                       (id :> [average_of_points |-> fc.p,
                               generated_vertex_id |->
                                   NextVertexId(c.generated_mesh)]) @@ @],
          data |-> [average_of_points |-> fc.p,
                    generated_vertex_id |-> NextVertexId(c.generated_mesh)]]

face_data_mut(input, id, c) ==
    IF ~c.ok THEN [c |-> c, data |-> NoFaceData]
    ELSE IF ~entry_vacant(c.face_data_set, id)
    THEN [c |-> c, data |-> c.face_data_set[id]]
    ELSE face_insert(c, id, face_center(input, id))

\* mutant: the cache is keyed by the halfedge id as given
edge_key_raw(input, id) == [ok |-> HasHalfedge(input, id), id |-> id]

\* mutant: the cache is keyed by the other halfedge of the pair
edge_key_swapped(input, id) ==
    IF ~HasHalfedge(input, id) THEN [ok |-> FALSE, id |-> NullId]
    ELSE LET o == input.halfedges[id].opposite
         IN  [ok |-> TRUE, id |-> IF o # NullId THEN o ELSE id]

\* let id = input.peek_same_halfedge(id);
edge_key(input, id) == peek_same_halfedge(input, id)

\* mutant: a halfedge without a live opposite falls back to its own face
opposite_face_or_own(input, halfedge) ==
    IF HasHalfedge(input, halfedge.opposite)
    THEN [ok |-> TRUE, face |-> input.halfedges[halfedge.opposite].face]
    ELSE [ok |-> TRUE, face |-> halfedge.face]

\* input.halfedge(halfedge.opposite).unwrap().face
opposite_face(input, halfedge) ==
    IF HasHalfedge(input, halfedge.opposite)
    THEN [ok |-> TRUE, face |-> input.halfedges[halfedge.opposite].face]
    ELSE [ok |-> FALSE, face |-> NullId]

\* EdgeData { mid_point, generated_vertex_id: output.add_vertex(center) };
\* f2 is the second face_data_mut call's result.
edge_insert(id, mid_point, center, f2) ==
    IF ~f2.c.ok THEN [c |-> f2.c, data |-> NoEdgeData]
    ELSE [c |-> [f2.c EXCEPT
                   !.generated_mesh = add_vertex(@, center),
                   !.edge_data_set =
                       (id :> [mid_point |-> mid_point,
                               generated_vertex_id |->
                                   NextVertexId(f2.c.generated_mesh)]) @@ @],
          data |-> [mid_point |-> mid_point,
                    generated_vertex_id |-> NextVertexId(f2.c.generated_mesh)]]

\* The two face points and the centroid of the four values; f1 is the first
\* face_data_mut call's result.
edge_center_of_four(input, id, mid_point, start_vertex_position, stop_vertex_position, opposite_face_id, f1) ==
    edge_insert(id, mid_point,
                centroid(<<f1.data.average_of_points,
                           face_data_mut(input, opposite_face_id, f1.c)
                               .data.average_of_points,
                           start_vertex_position,
                           stop_vertex_position>>),
                face_data_mut(input, opposite_face_id, f1.c))

\* The or_insert_with closure of edge_data_mut: mid is input.edge_center(id),
\* halfedge is input.halfedge(id), opp is the face of its opposite.
edge_compute(input, id, c, mid, halfedge, opp) ==
    IF \/ ~mid.ok
       \/ ~opp.ok
       \/ ~HasHalfedge(input, halfedge.next)
       \/ ~HasVertex(input, halfedge.vertex)
       \/ ~HasVertex(input, input.halfedges[halfedge.next].vertex)
    THEN [c |-> Panic(c), data |-> NoEdgeData]
    ELSE edge_center_of_four(
             input, id, mid.p,
             input.vertices[halfedge.vertex].position,
             input.vertices[input.halfedges[halfedge.next].vertex].position,
             opp.face,
             face_data_mut(input, halfedge.face, c))

\* edge_data_set.entry(id) for the canonical id k
edge_entry(input, c, k) ==
    IF ~k.ok THEN [c |-> Panic(c), data |-> NoEdgeData]
    ELSE IF ~entry_vacant(c.edge_data_set, k.id)
    THEN [c |-> c, data |-> c.edge_data_set[k.id]]
    ELSE IF ~HasHalfedge(input, k.id)
    THEN [c |-> Panic(c), data |-> NoEdgeData]
    ELSE edge_compute(input, k.id, c, edge_center(input, k.id),
                      input.halfedges[k.id],
                      opposite_face(input, input.halfedges[k.id]))

edge_data_mut(input, id, c) ==
    IF ~c.ok THEN [c |-> c, data |-> NoEdgeData]
    ELSE edge_entry(input, c, edge_key(input, id))

\* mutant: the scratch buffers keep what the previous vertex left in them
clear_scratch_skipped(c) == c

\* tmp_avg_of_faces.clear(); tmp_avg_of_edge_mids.clear();
clear_scratch(c) ==
    [c EXCEPT !.tmp_avg_of_faces = <<>>, !.tmp_avg_of_edge_mids = <<>>]

\* tmp_avg_of_faces.push(face_data_mut(..).average_of_points)
push_face(f) ==
    IF ~f.c.ok THEN f.c
    ELSE [f.c EXCEPT !.tmp_avg_of_faces = Append(@, f.data.average_of_points)]

\* tmp_avg_of_edge_mids.push(edge_data_mut(..).mid_point)
push_mid(e) ==
    IF ~e.c.ok THEN e.c
    ELSE [e.c EXCEPT !.tmp_avg_of_edge_mids = Append(@, e.data.mid_point)]

\* for halfedge_id in vertex.halfedges.iter(), in the set's iteration order
RECURSIVE collect_ring(_, _, _)
collect_ring(input, order, c) ==
    IF ~c.ok \/ order = <<>> THEN c
    ELSE IF ~HasHalfedge(input, Head(order)) THEN Panic(c)
    ELSE collect_ring(
             input, Tail(order),
             push_mid(edge_data_mut(
                 input, Head(order),
                 push_face(face_data_mut(
                     input, input.halfedges[Head(order)].face, c)))))

\* (2 * centroid(mids) + centroid(faces) + position * |len - 3|) / len
vertex_position(position, avg_of_faces, avg_of_edge_mids) ==
    LET bury_center == centroid(avg_of_faces)
        average_of_edge == centroid(avg_of_edge_mids)
    IN  PDiv(PAdd(PAdd(PScale(average_of_edge, 2), bury_center),
                  PScale(position, Abs(Len(avg_of_faces) - 3))),
             Len(avg_of_faces))

\* data.generated_vertex_id = output.add_vertex(position); c1 is the context
\* after the loop over the incidence set.
vertex_insert(input, id, c1) ==
    IF ~c1.ok THEN [c |-> c1, data |-> NoVertexData]
    ELSE [c |-> [c1 EXCEPT
                   !.generated_mesh =
                       add_vertex(@, vertex_position(
                                         input.vertices[id].position,
                                         c1.tmp_avg_of_faces,
                                         c1.tmp_avg_of_edge_mids)),
                   !.vertex_data_set =
                       (id :> [generated_vertex_id |->
                                   NextVertexId(c1.generated_mesh)]) @@ @],
          data |-> [generated_vertex_id |-> NextVertexId(c1.generated_mesh)]]

\* order: the order in which the vertex's incidence set is iterated.
vertex_data_mut(input, id, order, c) ==
    IF ~c.ok THEN [c |-> c, data |-> NoVertexData]
    ELSE IF ~entry_vacant(c.vertex_data_set, id)
    THEN [c |-> c, data |-> c.vertex_data_set[id]]
    ELSE IF ~HasVertex(input, id) THEN [c |-> Panic(c), data |-> NoVertexData]
    ELSE vertex_insert(input, id,
                       collect_ring(input, order, clear_scratch(c)))

\* ------------------------------------------------------------ generate()
\* mutant: the quad is wound the other way round
quad_corners_reversed(face_vertex_id, e1_vertex_id, vertex_generated_id, e2_vertex_id) ==
    <<face_vertex_id, e2_vertex_id, vertex_generated_id, e1_vertex_id>>

\* The vertices of added_halfedges, in array order.
quad_corners(face_vertex_id, e1_vertex_id, vertex_generated_id, e2_vertex_id) ==
    <<face_vertex_id, e1_vertex_id, vertex_generated_id, e2_vertex_id>>

RECURSIVE add_halfedges(_, _)
add_halfedges(out, n) ==
    IF n = 0 THEN out ELSE add_halfedges(add_halfedge(out), n - 1)

\* mutant: the halfedge is never entered into its origin's incidence set
attach_halfedge_unregistered(out, added_halfedge_id, added_vertex_id, added_face_id) ==
    [out EXCEPT
       !.halfedges[added_halfedge_id].face = added_face_id,
       !.halfedges[added_halfedge_id].vertex = added_vertex_id]

\* mutant: the new halfedge is also paired with its predecessor in the arena
attach_halfedge_paired(out, added_halfedge_id, added_vertex_id, added_face_id) ==
    [out EXCEPT
       !.vertices[added_vertex_id].halfedges = @ \cup {added_halfedge_id},
       !.halfedges[added_halfedge_id].face = added_face_id,
       !.halfedges[added_halfedge_id].vertex = added_vertex_id,
       !.halfedges[added_halfedge_id].opposite = added_halfedge_id - 1]

\* Body of the loop over added_halfedges: incidence set, face, vertex.
attach_halfedge(out, added_halfedge_id, added_vertex_id, added_face_id) ==
    [out EXCEPT
       !.vertices[added_vertex_id].halfedges = @ \cup {added_halfedge_id},
       !.halfedges[added_halfedge_id].face = added_face_id,
       !.halfedges[added_halfedge_id].vertex = added_vertex_id]

RECURSIVE attach_all(_, _, _, _, _)
attach_all(out, first_id, corners, added_face_id, i) ==
    IF i > Len(corners) THEN out
    ELSE attach_all(attach_halfedge(out, first_id + i - 1, corners[i],
                                    added_face_id),
                    first_id, corners, added_face_id, i + 1)

\* for i in 0..len: link_halfedges(added[i], added[(i + 1) % len])
RECURSIVE link_all(_, _, _, _)
link_all(out, first_id, len, i) ==
    IF i >= len THEN out
    ELSE link_all(link_halfedges(out, first_id + i,
                                 first_id + ((i + 1) % len)),
                  first_id, len, i + 1)

\* One new face with its halfedges, one per corner.
emit_quad(out, corners) ==
    LET with_face == add_face(out)
        added_face_id == Len(with_face.faces)
        first_id == Len(out.halfedges) + 1
        with_halfedges == add_halfedges(with_face, Len(corners))
        attached == attach_all(with_halfedges, first_id, corners,
                               added_face_id, 1)
        with_first == [attached EXCEPT
                          !.faces[added_face_id].halfedge = first_id]
    IN  link_all(with_first, first_id, Len(corners), 0)

\* The new face and its halfedges; v is vertex_data_mut's result.
corner_emit(face_vertex_id, e1_vertex_id, e2_vertex_id, v) ==
    IF ~v.c.ok THEN v.c
    ELSE [v.c EXCEPT !.generated_mesh =
             emit_quad(@, quad_corners(face_vertex_id, e1_vertex_id,
                                       v.data.generated_vertex_id,
                                       e2_vertex_id))]

\* e2 is self.edge_data_mut(next_halfedge_id)
corner_vertex(input, vertex_id, order, face_vertex_id, e1_vertex_id, e2) ==
    corner_emit(face_vertex_id, e1_vertex_id, e2.data.generated_vertex_id,
                vertex_data_mut(input, vertex_id, order, e2.c))

\* e1 is self.edge_data_mut(halfedge_id)
corner_edges(input, next_halfedge_id, vertex_id, order, face_vertex_id, e1) ==
    corner_vertex(input, vertex_id, order, face_vertex_id,
                  e1.data.generated_vertex_id,
                  edge_data_mut(input, next_halfedge_id, e1.c))

\* Body of the loop over face_halfedge_id_vec.
generate_corner(input, halfedge_id, order, face_vertex_id, c) ==
    IF ~HasHalfedge(input, halfedge_id)
       \/ ~HasHalfedge(input, input.halfedges[halfedge_id].next)
    THEN Panic(c)
    ELSE corner_edges(
             input, input.halfedges[halfedge_id].next,
             input.halfedges[input.halfedges[halfedge_id].next].vertex,
             order, face_vertex_id,
             edge_data_mut(input, halfedge_id, c))

\* mutant: every other element of the vector is skipped
after_corner_skipping(i) == i + 2

\* for halfedge_id in face_halfedge_id_vec: the position after this element
after_corner(i) == i + 1

\* ------------------------------------------------------------ input meshes
Perms(S) ==
    {p \in [1..Cardinality(S) -> S] :
        \A i, j \in 1..Cardinality(S) : i # j => p[i] # p[j]}

RECURSIVE Offset(_, _)
Offset(faces, i) == IF i <= 1 THEN 0 ELSE Offset(faces, i - 1) + Len(faces[i - 1])

RECURSIVE Corners(_, _)
Corners(faces, i) ==
    IF i > Len(faces) THEN <<>>
    ELSE [j \in 1..Len(faces[i]) |->
            [face |-> i, vertex |-> faces[i][j],
             dest |-> faces[i][(j % Len(faces[i])) + 1],
             next |-> Offset(faces, i) + (j % Len(faces[i])) + 1]]
         \o Corners(faces, i + 1)

\* What a loader builds from vertex positions and faces given as vertex loops.
MeshFromFaces(positions, faces) ==
    LET cs == Corners(faces, 1)
        Twin(g) == {k \in 1..Len(cs) : /\ cs[k].vertex = cs[g].dest
                                        /\ cs[k].dest = cs[g].vertex}
    IN  [vertices |-> [v \in 1..Len(positions) |->
                         [position |-> positions[v],
                          halfedges |-> {g \in 1..Len(cs) : cs[g].vertex = v}]],
         halfedges |-> [g \in 1..Len(cs) |->
                         [vertex |-> cs[g].vertex, face |-> cs[g].face,
                          next |-> cs[g].next,
                          opposite |-> IF Twin(g) = {} THEN NullId
                                       ELSE CHOOSE k \in Twin(g) : TRUE]],
         faces |-> [f \in 1..Len(faces) |-> [halfedge |-> Offset(faces, f) + 1]]]

\* Every storage order of the faces of one polyhedron.
FaceOrders(positions, faces) ==
    {MeshFromFaces(positions, [i \in 1..Len(faces) |-> faces[p[i]]]) :
        p \in Perms(1..Len(faces))}

\* A k-gon with a front and a back face: a closed mesh, every valence 2.
DihedronPositions(k) == [i \in 1..k |-> Pt(i, i * i, 0)]

DihedronFaces(k) == <<[i \in 1..k |-> i], [i \in 1..k |-> k + 1 - i]>>

TetrahedronPositions == <<Pt(0, 0, 0), Pt(6, 0, 0), Pt(0, 6, 0), Pt(0, 0, 6)>>

TetrahedronFaces == <<(<<1, 3, 2>>), (<<1, 2, 4>>), (<<2, 3, 4>>), (<<3, 1, 4>>)>>

\* A square base and an apex of valence 4.
PyramidPositions ==
    <<Pt(0, 0, 0), Pt(4, 0, 0), Pt(4, 4, 0), Pt(0, 4, 0), Pt(2, 2, 4)>>

PyramidFaces ==
    <<(<<1, 4, 3, 2>>), (<<1, 2, 5>>), (<<2, 3, 5>>), (<<3, 4, 5>>),
      (<<4, 1, 5>>)>>

ClosedMeshes ==
    FaceOrders(TetrahedronPositions, TetrahedronFaces)
    \cup {MeshFromFaces(PyramidPositions, PyramidFaces)}
    \cup UNION {FaceOrders(DihedronPositions(k), DihedronFaces(k)) :
                   k \in 3..MaxDegree}

\* A mesh whose two-phase construction was left unfinished in one place.
Unfinished(m) ==
    {[m EXCEPT !.halfedges[h].next = NullId] : h \in 1..Len(m.halfedges)}
    \cup {[m EXCEPT !.halfedges[h].opposite = NullId] : h \in 1..Len(m.halfedges)}
    \cup {[m EXCEPT !.halfedges[h].vertex = NullId] : h \in 1..Len(m.halfedges)}
    \cup {[m EXCEPT !.halfedges[h].face = NullId] : h \in 1..Len(m.halfedges)}
    \cup {[m EXCEPT !.faces[f].halfedge = NullId] : f \in 1..Len(m.faces)}
    \cup {[m EXCEPT !.vertices[v].halfedges = @ \cup {NullId}] :
             v \in 1..Len(m.vertices)}

SmallestMesh == MeshFromFaces(DihedronPositions(3), DihedronFaces(3))

InputMeshes == ClosedMeshes \cup Unfinished(SmallestMesh)

\* ------------------------------------------------------------------ state
VARIABLES
    mesh,                  \* the subdivider's source mesh (self.mesh)
    face_data_set,         \* input face id -> FaceData
    edge_data_set,         \* canonical input halfedge id -> EdgeData
    vertex_data_set,       \* input vertex id -> VertexData
    generated_mesh,        \* the destination mesh
    tmp_avg_of_faces,      \* scratch of vertex_data_mut
    tmp_avg_of_edge_mids,  \* scratch of vertex_data_mut
    pc,                    \* where the call stands
    face_id,               \* FaceIterator's position
    face_vertex_id,        \* face point of the face being walked
    face_halfedge_id_vec,  \* its boundary, materialised
    corner,                \* position in face_halfedge_id_vec
    returned,              \* <<m>> once subdivide() has returned m
    level,                 \* subdivide() calls started
    original,              \* history: the mesh the first call was given
    quad_source,           \* history: output face id -> input halfedge id
    asked,                 \* history: cache queries issued directly
    last,                  \* history: the latest cache query and its answer
    answers                \* history: <<kind, id>> -> id answered

vars == <<mesh, face_data_set, edge_data_set, vertex_data_set, generated_mesh,
          tmp_avg_of_faces, tmp_avg_of_edge_mids, pc, face_id, face_vertex_id,
          face_halfedge_id_vec, corner, returned, level, original,
          quad_source, asked, last, answers>>

loop_vars == <<pc, face_id, face_vertex_id, face_halfedge_id_vec, corner,
               returned, level, original, quad_source>>

Context ==
    [ok |-> TRUE, face_data_set |-> face_data_set,
     edge_data_set |-> edge_data_set, vertex_data_set |-> vertex_data_set,
     generated_mesh |-> generated_mesh, tmp_avg_of_faces |-> tmp_avg_of_faces,
     tmp_avg_of_edge_mids |-> tmp_avg_of_edge_mids]

Store(c) ==
    /\ face_data_set' = c.face_data_set
    /\ edge_data_set' = c.edge_data_set
    /\ vertex_data_set' = c.vertex_data_set
    /\ generated_mesh' = c.generated_mesh
    /\ tmp_avg_of_faces' = c.tmp_avg_of_faces
    /\ tmp_avg_of_edge_mids' = c.tmp_avg_of_edge_mids

\* The orders in which vertex_data_mut may iterate the incidence set of id;
\* the order is not consulted when the vertex is cached or absent.
RingOrders(input, id, cache) ==
    IF HasVertex(input, id) /\ id \notin DOMAIN cache
    THEN Perms(input.vertices[id].halfedges)
    ELSE {<<>>}

NoQuery == [kind |-> "none", id |-> NullId, ret |-> NullId, repeated |-> FALSE]

query_vars == <<asked, last, answers>>

Init ==
    /\ mesh \in InputMeshes
    /\ original = mesh
    /\ face_data_set = <<>>
    /\ edge_data_set = <<>>
    /\ vertex_data_set = <<>>
    /\ generated_mesh = EmptyMesh
    /\ tmp_avg_of_faces = <<>>
    /\ tmp_avg_of_edge_mids = <<>>
    /\ pc = "idle"
    /\ face_id = 1
    /\ face_vertex_id = NullId
    /\ face_halfedge_id_vec = <<>>
    /\ corner = 1
    /\ returned = <<>>
    /\ level = 0
    /\ quad_source = <<>>
    /\ asked = 0
    /\ last = NoQuery
    /\ answers = <<>>

\* The call panicked: the subdivider is dropped and nothing is returned.
Abort ==
    /\ pc' = "aborted"
    /\ UNCHANGED <<mesh, face_data_set, edge_data_set, vertex_data_set,
                   generated_mesh, tmp_avg_of_faces, tmp_avg_of_edge_mids,
                   face_id, face_vertex_id, face_halfedge_id_vec, corner,
                   returned, level, original, quad_source, query_vars>>

\* mesh.subdivide(): CatmullClarkSubdivider::new(self), then generate() begins.
\* reserve_internal_memory() only reserves capacity, which no variable holds.
\* A later call is given the mesh the previous call returned.
Subdivide ==
    /\ \/ pc = "idle"
       \/ pc = "done" /\ level < MaxLevel
    /\ mesh' = IF pc = "idle" THEN mesh ELSE returned[1]
    /\ Store(NewContext)
    /\ pc' = "faces"
    /\ face_id' = 1
    /\ face_vertex_id' = NullId
    /\ face_halfedge_id_vec' = <<>>
    /\ corner' = 1
    /\ returned' = <<>>
    /\ level' = level + 1
    /\ quad_source' = <<>>
    /\ UNCHANGED <<original, query_vars>>

\* f is the face point's cache entry, walk the materialised boundary.
EnterFace(f, walk) ==
    IF f.c.ok /\ walk.ok
    THEN /\ Store(f.c)
         /\ face_vertex_id' = f.data.generated_vertex_id
         /\ face_halfedge_id_vec' = walk.vec
         /\ corner' = 1
         /\ pc' = "corners"
         /\ UNCHANGED <<mesh, face_id, returned, level, original,
                        quad_source, query_vars>>
    ELSE Abort

\* Head of the loop over FaceIterator: face point, then the boundary vector.
BeginFace ==
    /\ pc = "faces"
    /\ face_id <= face_count(mesh)
    /\ EnterFace(face_data_mut(mesh, face_id, Context),
                 FaceHalfedges(mesh, mesh.faces[face_id].halfedge))

FarVertex(input, halfedge_id) ==
    IF HasHalfedge(input, halfedge_id)
       /\ HasHalfedge(input, input.halfedges[halfedge_id].next)
    THEN input.halfedges[input.halfedges[halfedge_id].next].vertex
    ELSE NullId

\* c is the context after the loop body ran for halfedge_id.
LeaveCorner(halfedge_id, c) ==
    IF c.ok
    THEN /\ Store(c)
         /\ quad_source' = Append(quad_source, halfedge_id)
         /\ IF after_corner(corner) > Len(face_halfedge_id_vec)
            THEN /\ pc' = "faces"
                 /\ face_id' = face_id + 1
                 /\ corner' = 1
            ELSE /\ pc' = "corners"
                 /\ face_id' = face_id
                 /\ corner' = after_corner(corner)
         /\ UNCHANGED <<mesh, face_vertex_id, face_halfedge_id_vec,
                        returned, level, original, query_vars>>
    ELSE Abort

\* One iteration of the loop over face_halfedge_id_vec.
Corner ==
    /\ pc = "corners"
    /\ corner <= Len(face_halfedge_id_vec)
    /\ \E order \in RingOrders(mesh,
                               FarVertex(mesh, face_halfedge_id_vec[corner]),
                               vertex_data_set) :
         LeaveCorner(face_halfedge_id_vec[corner],
                     generate_corner(mesh, face_halfedge_id_vec[corner],
                                     order, face_vertex_id, Context))

\* FaceIterator is exhausted: generate() returns self.generated_mesh.
Return ==
    /\ pc = "faces"
    /\ face_id > face_count(mesh)
    /\ returned' = <<generated_mesh>>
    /\ pc' = "done"
    /\ UNCHANGED <<mesh, face_data_set, edge_data_set, vertex_data_set,
                   generated_mesh, tmp_avg_of_faces, tmp_avg_of_edge_mids,
                   face_id, face_vertex_id, face_halfedge_id_vec, corner,
                   level, original, quad_source, query_vars>>

Next == Subdivide \/ BeginFace \/ Corner \/ Return

Spec == Init /\ [][Next]_vars

\* ------------------------------------------- the caches queried on their own
\* The three cache functions applied in any order to one subdivider.
QueryMeshes ==
    {MeshFromFaces(DihedronPositions(k), DihedronFaces(k)) : k \in 3..MaxDegree}

InitQuery ==
    /\ mesh \in QueryMeshes
    /\ original = mesh
    /\ face_data_set = <<>>
    /\ edge_data_set = <<>>
    /\ vertex_data_set = <<>>
    /\ generated_mesh = EmptyMesh
    /\ tmp_avg_of_faces = <<>>
    /\ tmp_avg_of_edge_mids = <<>>
    /\ pc = "query"
    /\ face_id = 1
    /\ face_vertex_id = NullId
    /\ face_halfedge_id_vec = <<>>
    /\ corner = 1
    /\ returned = <<>>
    /\ level = 1
    /\ quad_source = <<>>
    /\ asked = 0
    /\ last = NoQuery
    /\ answers = <<>>

Answer(kind, id, r) ==
    /\ r.c.ok
    /\ Store(r.c)
    /\ asked' = asked + 1
    /\ last' = [kind |-> kind, id |-> id, ret |-> r.data.generated_vertex_id,
                repeated |-> <<kind, id>> \in DOMAIN answers]
    /\ answers' = (<<kind, id>> :> r.data.generated_vertex_id) @@ answers
    /\ UNCHANGED <<mesh, loop_vars>>

QueryFace ==
    /\ pc = "query"
    /\ asked < MaxQueries
    /\ \E id \in 1..face_count(mesh) :
         Answer("face", id, face_data_mut(mesh, id, Context))

QueryEdge ==
    /\ pc = "query"
    /\ asked < MaxQueries
    /\ \E id \in 1..halfedge_count(mesh) :
         Answer("edge", id, edge_data_mut(mesh, id, Context))

QueryVertex ==
    /\ pc = "query"
    /\ asked < MaxQueries
    /\ \E id \in 1..vertex_count(mesh) :
         \E order \in RingOrders(mesh, id, vertex_data_set) :
           Answer("vertex", id, vertex_data_mut(mesh, id, order, Context))

NextQuery == QueryFace \/ QueryEdge \/ QueryVertex

SpecQuery == InitQuery /\ [][NextQuery]_vars

\* ------------------------------------------------ vocabulary of the claims
Destination(m, h) == m.halfedges[m.halfedges[h].next].vertex

\* The undirected edges: the pairs {h, opposite(h)}.
Edges(m) == {{h, m.halfedges[h].opposite} : h \in 1..Len(m.halfedges)}

Degree(m, f) == Len(FaceHalfedges(m, m.faces[f].halfedge).vec)

\* Closed next cycles, opposite(opposite(h)) = h, incidence sets consistent
\* with origins.
WellFormed(m) ==
    /\ \A h \in 1..Len(m.halfedges) :
         /\ HasHalfedge(m, m.halfedges[h].next)
         /\ HasHalfedge(m, m.halfedges[h].opposite)
         /\ m.halfedges[h].opposite # h
         /\ m.halfedges[m.halfedges[h].opposite].opposite = h
         /\ HasVertex(m, m.halfedges[h].vertex)
         /\ HasFace(m, m.halfedges[h].face)
    /\ \A f \in 1..Len(m.faces) :
         /\ FaceHalfedges(m, m.faces[f].halfedge).ok
         /\ Degree(m, f) >= 3
         /\ \A h \in 1..Len(m.halfedges) :
              m.halfedges[h].face = f
                <=> \E i \in 1..Degree(m, f) :
                       FaceHalfedges(m, m.faces[f].halfedge).vec[i] = h
    /\ \A v \in 1..Len(m.vertices) :
         m.vertices[v].halfedges =
             {h \in 1..Len(m.halfedges) : m.halfedges[h].vertex = v}

\* Some id the traversal follows addresses no entity of m.
Dangling(m) ==
    \/ \E f \in 1..Len(m.faces) : ~HasHalfedge(m, m.faces[f].halfedge)
    \/ \E h \in 1..Len(m.halfedges) :
         \/ ~HasHalfedge(m, m.halfedges[h].next)
         \/ ~HasHalfedge(m, m.halfedges[h].opposite)
         \/ ~HasVertex(m, m.halfedges[h].vertex)
         \/ ~HasFace(m, m.halfedges[h].face)
    \/ \E v \in 1..Len(m.vertices) :
         \E h \in m.vertices[v].halfedges : ~HasHalfedge(m, h)

\* The generated vertex cached for the edge of input halfedge h.
EdgePoint(h) ==
    edge_data_set[CHOOSE k \in {h, mesh.halfedges[h].opposite} :
                     k \in DOMAIN edge_data_set].generated_vertex_id

Origins(m, vec) == [i \in 1..Len(vec) |-> m.halfedges[vec[i]].vertex]

C3_QuadShape ==
    pc = "done"
      => \A q \in 1..face_count(returned[1]) :
           LET out == returned[1]
               w == FaceHalfedges(out, out.faces[q].halfedge)
               h == quad_source[q]
           IN  /\ w.ok
               /\ Len(w.vec) = 4
               /\ \A i \in 1..4 : out.halfedges[w.vec[i]].face = q
               /\ Origins(out, w.vec) =
                    <<face_data_set[mesh.halfedges[h].face].generated_vertex_id,
                      EdgePoint(h),
                      vertex_data_set[Destination(mesh, h)].generated_vertex_id,
                      EdgePoint(mesh.halfedges[h].next)>>
               /\ out.vertices[Origins(out, w.vec)[1]].position =
                    face_center(mesh, mesh.halfedges[h].face).p

\* A returned mesh in which the four corners of some quad are four different
\* generated vertices.
C3_Witness ==
    /\ pc = "done"
    /\ level = 1
    /\ face_count(returned[1]) >= 12
    /\ \E q \in 1..face_count(returned[1]) :
         Cardinality({returned[1].halfedges[g].vertex :
                        g \in {k \in 1..halfedge_count(returned[1]) :
                                 returned[1].halfedges[k].face = q}}) = 4

\* Whether the entity a query names already has its cache entry.
Cached(kind, id) ==
    CASE kind = "face" -> id \in DOMAIN face_data_set
      [] kind = "vertex" -> id \in DOMAIN vertex_data_set
      [] kind = "edge" -> \E k \in {id, mesh.halfedges[id].opposite} :
                             k \in DOMAIN edge_data_set
      [] OTHER -> FALSE

Entries ==
    Cardinality(DOMAIN face_data_set) + Cardinality(DOMAIN edge_data_set)
    + Cardinality(DOMAIN vertex_data_set)

GeneratedIds ==
    {face_data_set[k].generated_vertex_id : k \in DOMAIN face_data_set}
    \cup {edge_data_set[k].generated_vertex_id : k \in DOMAIN edge_data_set}
    \cup {vertex_data_set[k].generated_vertex_id : k \in DOMAIN vertex_data_set}

\* C4: the caches are get-or-compute.  A query for an entity without an entry
\* answers with a vertex it has just added, every entry made on the way
\* brought exactly one vertex, and no entry is ever changed; a query for an
\* entity with an entry, and any repeated query, answers with the id stored
\* before and adds no vertex.
C4_GetOrCompute ==
    [][asked' = asked + 1 =>
         /\ \A k \in DOMAIN face_data_set : face_data_set'[k] = face_data_set[k]
         /\ \A k \in DOMAIN edge_data_set : edge_data_set'[k] = edge_data_set[k]
         /\ \A k \in DOMAIN vertex_data_set :
              vertex_data_set'[k] = vertex_data_set[k]
         /\ vertex_count(generated_mesh') - vertex_count(generated_mesh)
              = Entries' - Entries
         /\ Cardinality(GeneratedIds') = Entries'
         /\ IF Cached(last'.kind, last'.id)
            THEN /\ generated_mesh' = generated_mesh
                 /\ last'.ret \in GeneratedIds
            ELSE /\ last'.ret \in (vertex_count(generated_mesh) + 1)
                                    ..vertex_count(generated_mesh')
                 /\ last'.ret \in GeneratedIds'
         /\ <<last'.kind, last'.id>> \in DOMAIN answers
              => /\ last'.ret = answers[<<last'.kind, last'.id>>]
                 /\ generated_mesh' = generated_mesh
    ]_vars

\* The same face has been queried twice and the output holds one vertex.
C4_Witness ==
    /\ pc = "query"
    /\ asked >= 2
    /\ last.kind = "face"
    /\ last.repeated
    /\ vertex_count(generated_mesh) = 1

\* C5: a halfedge and its opposite are answered with the same edge point,
\* whichever was asked first.
C5_SameEdgePoint ==
    pc = "query"
      => \A h \in 1..halfedge_count(mesh) :
           (/\ <<"edge", h>> \in DOMAIN answers
            /\ <<"edge", mesh.halfedges[h].opposite>> \in DOMAIN answers)
             => answers[<<"edge", h>>]
                  = answers[<<"edge", mesh.halfedges[h].opposite>>]

\* The larger halfedge id of an edge was asked first, then the smaller one.
C5_Witness ==
    /\ pc = "query"
    /\ asked = 2
    /\ last.kind = "edge"
    /\ ~last.repeated
    /\ last.id < mesh.halfedges[last.id].opposite
    /\ <<"edge", mesh.halfedges[last.id].opposite>> \in DOMAIN answers

AllQuads(m) == \A f \in 1..face_count(m) : Degree(m, f) = 4

\* C6: subdividing a mesh of quads twice ends with a mesh of 16 times as many
\* faces as the original.
C6_TwiceSixteenfold ==
    (level = 2 /\ pc \in {"done", "aborted"} /\ AllQuads(original))
      => /\ pc = "done"
         /\ face_count(returned[1]) = 16 * face_count(original)

\* C7: in the returned mesh every member of a vertex's incidence set
\* originates at that vertex, and every halfedge is a member of the incidence
\* set of its origin and of no other vertex.
C7_Incidence ==
    pc = "done"
      => LET out == returned[1] IN
         /\ \A v \in 1..vertex_count(out) :
              \A h \in out.vertices[v].halfedges :
                 HasHalfedge(out, h) /\ out.halfedges[h].vertex = v
         /\ \A h \in 1..halfedge_count(out) :
              \A v \in 1..vertex_count(out) :
                 h \in out.vertices[v].halfedges
                   <=> v = out.halfedges[h].vertex

\* A returned mesh with a vertex that several quads meet at.
C7_Witness ==
    /\ pc = "done"
    /\ level = 1
    /\ \E v \in 1..vertex_count(returned[1]) :
         Cardinality(returned[1].vertices[v].halfedges) >= 4

\* C8: with a dangling id in the input the call aborts and returns nothing,
\* whatever it had built by then.
C8_AbortOnDangling ==
    /\ Dangling(mesh) => (pc # "done" /\ returned = <<>>)
    /\ pc = "aborted" => returned = <<>>

\* A first call aborted on a dangling id after it had emitted faces.
C8_Witness ==
    /\ pc = "aborted"
    /\ level = 1
    /\ Dangling(mesh)
    /\ face_count(generated_mesh) > 0
    /\ returned = <<>>

\* The points an operator yields for the members of a set, in some order.
Collected(S, Op(_)) ==
    LET order == CHOOSE p \in Perms(S) : TRUE
    IN  [i \in 1..Cardinality(S) |-> Op(order[i])]

\* (2 * E + F + P * |n - 3|) / n over the incidence set of input vertex v.
ExpectedVertexPoint(m, v) ==
    LET ring == m.vertices[v].halfedges
        n == Cardinality(ring)
        FacePointOf(h) == face_center(m, m.halfedges[h].face).p
        MidPointOf(h) == edge_center(m, h).p
        F == PDiv(PSum(Collected(ring, FacePointOf)), n)
        E == PDiv(PSum(Collected(ring, MidPointOf)), n)
    IN  PDiv(PAdd(PAdd(PScale(E, 2), F),
                  PScale(m.vertices[v].position, Abs(n - 3))),
             n)

\* C9: the vertex point of every input vertex lies at (2E + F + P|n - 3|) / n,
\* F and E the centroids of the face points and of the raw edge midpoints of
\* its own n incident halfedges only.
C9_VertexPoint ==
    \A v \in DOMAIN vertex_data_set :
       generated_mesh.vertices[vertex_data_set[v].generated_vertex_id].position
         = ExpectedVertexPoint(mesh, v)

\* Vertex points exist for vertices of valence 3 and 4, computed one after
\* the other with the same scratch buffers.
C9_Witness ==
    /\ pc = "done"
    /\ level = 1
    /\ \E v, w \in DOMAIN vertex_data_set :
         /\ Cardinality(mesh.vertices[v].halfedges) = 4
         /\ Cardinality(mesh.vertices[w].halfedges) = 3

\* C10: no halfedge of the output ever has another opposite than the one
\* add_halfedge() gave it, so no output halfedge is the opposite of its
\* opposite.
C10_OppositeUntouched ==
    \A h \in 1..halfedge_count(generated_mesh) :
       /\ generated_mesh.halfedges[h].opposite
            = add_halfedge(EmptyMesh).halfedges[1].opposite
       /\ ~(/\ HasHalfedge(generated_mesh, generated_mesh.halfedges[h].opposite)
            /\ generated_mesh.halfedges[generated_mesh.halfedges[h].opposite]
                   .opposite = h)

\* Two halfedges of the returned mesh run along the same edge in opposite
\* directions and neither names the other.
C10_Witness ==
    /\ pc = "done"
    /\ level = 1
    /\ \E g, h \in 1..halfedge_count(returned[1]) :
         /\ g # h
         /\ returned[1].halfedges[g].vertex = Destination(returned[1], h)
         /\ returned[1].halfedges[h].vertex = Destination(returned[1], g)
         /\ returned[1].halfedges[g].opposite = NullId
         /\ returned[1].halfedges[h].opposite = NullId
====
